---- MODULE Spec2Model ----
(***************************************************************************)
(* Linalg structured operations (LinalgStructuredOps.td): the named ops     *)
(* copy, fill, conv, pooling_{max,min,sum} and the generic ops, their       *)
(* iterator_types() and indexing_maps() methods, and the structural         *)
(* verifier that consumes the resulting operation descriptor.               *)
(***************************************************************************)
EXTENDS Integers, Sequences, FiniteSets, TLC

VARIABLES
    assertions, \* TRUE when the build keeps assert() (no NDEBUG)
    pc,         \* position in the life of the current operation
    op,         \* the operation: kind, operands and attributes
    iters,      \* result of iterator_types(), wrapped in a 0/1-element sequence
    maps,       \* result of indexing_maps(), wrapped in a 0/1-element sequence
    nWinUsed,   \* window counts (unsigned, two 16-bit limbs) computed so far
    verr,       \* result of the verifier: "" before it ran, else "ok" or an error
    lowered,    \* result of lower(): NotLowered, a lowered form or an error
    run,        \* execution of a lowered loop nest: memory and loop position
    comp        \* a composition of two affine maps: the maps and the result

vars == <<assertions, pc, op, iters, maps, nWinUsed, verr, lowered, run, comp>>

(***************************************************************************)
(* Bounds of the model.                                                     *)
(***************************************************************************)
MaxRank == 4
MaxGenericOperands == 2

Ranks == 0..MaxRank

\* iteration points compared with each other have coordinates in 0..MaxCoord
MaxCoord == 1

(***************************************************************************)
(* Optional<T>: llvm::None is <<>>, a present value v is <<v>>.             *)
(***************************************************************************)
None == <<>>
Some(v) == <<v>>
hasValue(o) == o # <<>>
getValue(o) == o[1]

(***************************************************************************)
(* unsigned: 32-bit arithmetic on two 16-bit limbs, value = hi*2^16 + lo.   *)
(***************************************************************************)
Limb == 2 ^ 16

U32(n) == [hi |-> (n \div Limb) % Limb, lo |-> n % Limb]

U32Sub(x, y) ==
    LET lo == x.lo - y.lo
        borrow == IF lo < 0 THEN 1 ELSE 0
    IN [hi |-> (x.hi - y.hi - borrow) % Limb, lo |-> lo % Limb]

U32Add(x, y) ==
    LET lo == x.lo + y.lo
        carry == IF lo >= Limb THEN 1 ELSE 0
    IN [hi |-> (x.hi + y.hi + carry) % Limb, lo |-> lo % Limb]

\* a > b on unsigned values
U32Gt(x, y) == x.hi > y.hi \/ (x.hi = y.hi /\ x.lo > y.lo)

\* the unsigned value fits the ranks the model materialises
U32Small(x) == x.hi = 0 /\ x.lo <= 2 * MaxRank + 2

(***************************************************************************)
(* AffineExpr in normal form: a constant plus a set of <<dim, coefficient>> *)
(* terms with non-zero coefficients.  Dimension d is the d-th (0-based)     *)
(* coordinate of the iteration space.                                       *)
(***************************************************************************)
getAffineDimExpr(d) == [lin |-> {<<d, 1>>}, c |-> 0]
getAffineConstantExpr(k) == [lin |-> {}, c |-> k]

Coef(e, d) ==
    IF \E t \in e.lin : t[1] = d
    THEN (CHOOSE t \in e.lin : t[1] = d)[2]
    ELSE 0

ExprDims(e) == {t[1] : t \in e.lin}

\* k * e, k a compile-time constant
MulE(k, e) ==
    [lin |-> {<<t[1], k * t[2]>> : t \in {u \in e.lin : k * u[2] # 0}},
     c |-> k * e.c]

AddE(a, b) ==
    [lin |-> {<<d, Coef(a, d) + Coef(b, d)>> :
                d \in {x \in ExprDims(a) \cup ExprDims(b) :
                         Coef(a, x) + Coef(b, x) # 0}},
     c |-> a.c + b.c]

SubConstE(a, k) == [lin |-> a.lin, c |-> a.c - k]

RECURSIVE SumTerms(_, _)
SumTerms(lin, pt) ==
    IF lin = {} THEN 0
    ELSE LET t == CHOOSE u \in lin : TRUE
         IN t[2] * pt[t[1] + 1] + SumTerms(lin \ {t}, pt)

\* value of the expression at the iteration point pt (pt[d+1] is dimension d)
EvalExpr(e, pt) == e.c + SumTerms(e.lin, pt)

(***************************************************************************)
(* AffineMap: numDims inputs, a sequence of result expressions.             *)
(***************************************************************************)
AffineMapGet(numDims, results) == [numDims |-> numDims, results |-> results]

getMultiDimIdentityMap(rank) ==
    AffineMapGet(rank, [i \in 1..rank |-> getAffineDimExpr(i - 1)])

\* permutation map: result i is dimension perm[i] (0-based values)
getPermutationMap(perm) ==
    AffineMapGet(Len(perm), [i \in 1..Len(perm) |-> getAffineDimExpr(perm[i])])

EvalMap(m, pt) == [i \in 1..Len(m.results) |-> EvalExpr(m.results[i], pt)]

\* makeAffineDimExprs(num, startIdx): d_startIdx .. d_(startIdx+num-1);
\* the caller advances startIdx by num.
makeAffineDimExprs(num, startIdx) ==
    [i \in 1..num |-> getAffineDimExpr(startIdx + i - 1)]

concat(a, b) == a \o b

\* extractOrIdentityMap(maybeMap, rank)
extractOrIdentityMap(maybeMap, rank) ==
    IF hasValue(maybeMap) THEN getValue(maybeMap)
    ELSE getMultiDimIdentityMap(rank)

(***************************************************************************)
(* The operation.  operands is the list of operand ranks in declaration     *)
(* order (ScalarOperand for a non-shaped operand), values the list of the    *)
(* SSA values bound to them; the attributes an op kind does not have are    *)
(* None / empty.                                                            *)
(***************************************************************************)
ScalarOperand == 0 - 1

PoolingKinds == {"pooling_max", "pooling_min", "pooling_sum"}
GenericKinds == {"generic", "indexed_generic"}

NoOp ==
    [kind |-> "none", operands |-> <<>>, values |-> <<>>,
     nInputs |-> 0, nOutputs |-> 0,
     strides |-> None, dilations |-> None, padding |-> None,
     inputPermutation |-> None, outputPermutation |-> None,
     indexing_maps |-> <<>>, iterator_types |-> <<>>, library_call |-> None]

getParallelIteratorTypeName == "parallel"
getReductionIteratorTypeName == "reduction"
getWindowIteratorTypeName == "window"

\* SmallVector<StringRef>(n, name) / append(n, name)
Repeat(n, name) == [i \in 1..n |-> name]

\* OperandRange::take_front(n), take_back(n), slice(start, n): operand positions
take_front(o, n) == [i \in 1..n |-> i]
take_back(o, n) == [i \in 1..n |-> Len(o.operands) - n + i]
slice(o, start, n) == [i \in 1..n |-> start + i]

\* inputs() of each op
inputs(o) ==
    CASE o.kind = "copy" -> take_front(o, 1)
      [] o.kind = "fill" -> <<>>
      [] o.kind = "conv" -> slice(o, 0, 2)
      [] o.kind \in PoolingKinds -> slice(o, 0, 2)
      [] OTHER -> [i \in 1..o.nInputs |-> i]

\* outputs() of each op
outputs(o) ==
    CASE o.kind = "copy" -> take_back(o, 1)
      [] o.kind = "fill" -> take_front(o, 1)
      [] o.kind = "conv" -> take_back(o, 1)
      [] o.kind \in PoolingKinds -> take_back(o, 1)
      [] OTHER -> [i \in 1..o.nOutputs |-> o.nInputs + i]

\* the shaped operands the indexing maps are paired with: inputs, then outputs
getShapedOperands(o) == inputs(o) \o outputs(o)

getInputRank(o, i) == o.operands[inputs(o)[i + 1]]
getOutputRank(o, i) == o.operands[outputs(o)[i + 1]]

CountKind(its, name) == Cardinality({i \in 1..Len(its) : its[i] = name})

(***************************************************************************)
(* CopyOp and FillOp.                                                       *)
(***************************************************************************)
\* mutant: the loop count is taken from the output view
CopyOp_iterator_types_OutputRank(o) ==
    LET nPar == getOutputRank(o, 0)
    IN Repeat(nPar, getParallelIteratorTypeName)

CopyOp_iterator_types(o) ==
    LET nPar == getInputRank(o, 0)
    IN Repeat(nPar, getParallelIteratorTypeName)

\* mutant: both maps are built for the input rank
CopyOp_indexing_maps_InputRankTwice(o) ==
    LET inputRank == getInputRank(o, 0)
    IN <<extractOrIdentityMap(o.inputPermutation, inputRank),
         extractOrIdentityMap(o.outputPermutation, inputRank)>>

CopyOp_indexing_maps(o) ==
    LET maybeInputMap == o.inputPermutation
        maybeOutputMap == o.outputPermutation
        inputRank == getInputRank(o, 0)
        outputRank == getOutputRank(o, 0)
    IN <<extractOrIdentityMap(maybeInputMap, inputRank),
         extractOrIdentityMap(maybeOutputMap, outputRank)>>

FillOp_iterator_types(o) ==
    LET nPar == getOutputRank(o, 0)
    IN Repeat(nPar, getParallelIteratorTypeName)

\* mutant: the scalar value gets a map of its own
FillOp_indexing_maps_WithScalarMap(o) ==
    LET nPar == CountKind(FillOp_iterator_types(o), getParallelIteratorTypeName)
    IN <<extractOrIdentityMap(None, nPar), AffineMapGet(nPar, <<>>)>>

FillOp_indexing_maps(o) ==
    LET getNumParallelLoops ==
            CountKind(FillOp_iterator_types(o), getParallelIteratorTypeName)
    IN <<extractOrIdentityMap(None, getNumParallelLoops)>>

(***************************************************************************)
(* ConvOp::iterator_types.  The assert is checked only in builds that keep  *)
(* assertions; without it nWin is computed in unsigned arithmetic.          *)
(***************************************************************************)
getNumBatchDimensions == 1
getNumInputFeatureDimensions == 1
getNumOutputFeatureDimensions == 1

\* getOutputShapedType(0).getRank() - getNumBatchDimensions()
\*     - getNumOutputFeatureDimensions(), returned as unsigned
getNumSpatialDimensions(o) ==
    U32Sub(U32Sub(U32(getOutputRank(o, 0)), U32(getNumBatchDimensions)),
           U32(getNumOutputFeatureDimensions))

ConvOp_nPar(o) == getOutputRank(o, 0)

\* assert(nPar > getNumBatchDimensions() + getNumInputFeatureDimensions())
ConvOp_assert_nPar(o) ==
    U32Gt(U32(ConvOp_nPar(o)),
          U32Add(U32(getNumBatchDimensions), U32(getNumInputFeatureDimensions)))

\* unsigned nWin = nPar - getNumBatchDimensions() - getNumInputFeatureDimensions()
ConvOp_nWin(o) ==
    U32Sub(U32Sub(U32(ConvOp_nPar(o)), U32(getNumBatchDimensions)),
           U32(getNumInputFeatureDimensions))

\* mutant: the window entries are appended before the reduction entries
ConvOp_iterator_types_WindowBeforeReduction(o) ==
    LET nPar == ConvOp_nPar(o)
        nRed == getNumInputFeatureDimensions
        nWin == ConvOp_nWin(o).lo
    IN (Repeat(nPar, getParallelIteratorTypeName)
          \o Repeat(nWin, getWindowIteratorTypeName))
          \o Repeat(nRed, getReductionIteratorTypeName)

\* the vector the method returns, when nWin entries can be appended
ConvOp_iterator_types(o) ==
    LET nPar == ConvOp_nPar(o)
        nRed == getNumInputFeatureDimensions
        nWin == ConvOp_nWin(o).lo
    IN (Repeat(nPar, getParallelIteratorTypeName)
          \o Repeat(nRed, getReductionIteratorTypeName))
          \o Repeat(nWin, getWindowIteratorTypeName)

\* "ok", "assert" (the assertion fails and aborts) or "overflow" (the wrapped
\* nWin asks for more entries than a vector of StringRef can hold)
ConvOp_iterator_types_outcome(o, asserts) ==
    IF asserts /\ ~ConvOp_assert_nPar(o) THEN "assert"
    ELSE IF ~U32Small(ConvOp_nWin(o)) THEN "overflow"
    ELSE "ok"

(***************************************************************************)
(* SingleInputPoolingBase_Op::iterator_types.                               *)
(***************************************************************************)
\* mutant: the window entries come first
PoolingOp_iterator_types_WindowFirst(o) ==
    LET nPar == getOutputRank(o, 0)
        nWin == nPar
    IN Repeat(nWin, getWindowIteratorTypeName)
          \o Repeat(nPar, getParallelIteratorTypeName)

PoolingOp_iterator_types(o) ==
    LET nPar == getOutputRank(o, 0)
        nWin == nPar
    IN Repeat(nPar, getParallelIteratorTypeName)
          \o Repeat(nWin, getWindowIteratorTypeName)

(***************************************************************************)
(* iterator_types() of any op and the loop counts of the structured-op      *)
(* interface, which count the entries of iterator_types().                  *)
(***************************************************************************)
iterator_types(o) ==
    CASE o.kind = "copy" -> CopyOp_iterator_types(o)
      [] o.kind = "fill" -> FillOp_iterator_types(o)
      [] o.kind = "conv" -> ConvOp_iterator_types(o)
      [] o.kind \in PoolingKinds -> PoolingOp_iterator_types(o)
      [] OTHER -> o.iterator_types

getNumLoops(o) == Len(iterator_types(o))
getNumParallelLoops(o) ==
    CountKind(iterator_types(o), getParallelIteratorTypeName)
getNumWindowLoops(o) ==
    CountKind(iterator_types(o), getWindowIteratorTypeName)

(***************************************************************************)
(* PoolingBase_Op: attribute accessors with their defaults, and the         *)
(* weighted input index built from them.                                    *)
(***************************************************************************)
\* mutant: a missing strides attribute reads as stride 0
getStride_DefaultsToZero(o, i) ==
    IF ~hasValue(o.strides) THEN 0 ELSE getValue(o.strides)[i + 1]

getStride(o, i) ==
    IF ~hasValue(o.strides) THEN 1 ELSE getValue(o.strides)[i + 1]

\* mutant: the dilation is read from the strides attribute
getDilation_ReadsStrides(o, i) ==
    IF ~hasValue(o.strides) THEN 1 ELSE getValue(o.strides)[i + 1]

getDilation(o, i) ==
    IF ~hasValue(o.dilations) THEN 1 ELSE getValue(o.dilations)[i + 1]

getLowPad(o, i) ==
    IF ~hasValue(o.padding) THEN 0 ELSE getValue(o.padding)[i + 1][1]

getHighPad(o, i) ==
    IF ~hasValue(o.padding) THEN 0 ELSE getValue(o.padding)[i + 1][2]

\* stride(i) * outputDims[i] + dilation(i) * windowDims[i] - lowPad(i)
weightedPoolingInputIndex(o, outputDims, windowDims) ==
    [i \in 1..Len(outputDims) |->
        SubConstE(AddE(MulE(getStride(o, i - 1), outputDims[i]),
                       MulE(getDilation(o, i - 1), windowDims[i])),
                  getLowPad(o, i - 1))]

(***************************************************************************)
(* ConvOp::indexing_maps and SingleInputPoolingBase_Op::indexing_maps.      *)
(* AffineDimExprs are numbered in loop order by a running idx.              *)
(***************************************************************************)
\* mutant: the filter map leaves out the input feature dimension q
ConvOp_indexing_maps_FilterWithoutFeature(o) ==
    LET nWin == getNumWindowLoops(o)
        bs == makeAffineDimExprs(getNumBatchDimensions, 0)
        xs == makeAffineDimExprs(nWin, 1)
        ks == makeAffineDimExprs(getNumOutputFeatureDimensions, nWin + 1)
        qs == makeAffineDimExprs(getNumInputFeatureDimensions, nWin + 2)
        zs == makeAffineDimExprs(nWin, nWin + 3)
        idx == 2 * nWin + 3
        ws == weightedPoolingInputIndex(o, xs, zs)
    IN <<AffineMapGet(idx, concat(zs, ks)),
         AffineMapGet(idx, concat(concat(bs, ws), qs)),
         AffineMapGet(idx, concat(concat(bs, xs), ks))>>

ConvOp_indexing_maps(o) ==
    LET nWin == getNumWindowLoops(o)
        idx0 == 0
        bs == makeAffineDimExprs(getNumBatchDimensions, idx0)
        idx1 == idx0 + getNumBatchDimensions
        xs == makeAffineDimExprs(nWin, idx1)
        idx2 == idx1 + nWin
        ks == makeAffineDimExprs(getNumOutputFeatureDimensions, idx2)
        idx3 == idx2 + getNumOutputFeatureDimensions
        qs == makeAffineDimExprs(getNumInputFeatureDimensions, idx3)
        idx4 == idx3 + getNumInputFeatureDimensions
        zs == makeAffineDimExprs(nWin, idx4)
        idx == idx4 + nWin
        ws == weightedPoolingInputIndex(o, xs, zs)
    IN <<AffineMapGet(idx, concat(concat(zs, qs), ks)),
         AffineMapGet(idx, concat(concat(bs, ws), qs)),
         AffineMapGet(idx, concat(concat(bs, xs), ks))>>

\* getNumWindowLoops() runs iterator_types(); then assert(nWin > 0)
ConvOp_indexing_maps_outcome(o, asserts) ==
    IF ConvOp_iterator_types_outcome(o, asserts) # "ok"
    THEN ConvOp_iterator_types_outcome(o, asserts)
    ELSE IF asserts /\ ~(getNumWindowLoops(o) > 0) THEN "assert"
    ELSE "ok"

\* mutant: the output map is created before the window dimensions are counted
PoolingOp_indexing_maps_ShortDomain(o) ==
    LET nPar == getNumParallelLoops(o)
        nWin == getNumWindowLoops(o)
        outputDims == makeAffineDimExprs(nPar, 0)
        windowDims == makeAffineDimExprs(nWin, nPar)
        idx == nPar + nWin
        inputDims == weightedPoolingInputIndex(o, outputDims, windowDims)
    IN <<AffineMapGet(idx, inputDims),
         AffineMapGet(idx, windowDims),
         AffineMapGet(nPar, outputDims)>>

\* mutant: the output is indexed by the window dimensions
PoolingOp_indexing_maps_OutputOverWindow(o) ==
    LET nPar == getNumParallelLoops(o)
        nWin == getNumWindowLoops(o)
        outputDims == makeAffineDimExprs(nPar, 0)
        windowDims == makeAffineDimExprs(nWin, nPar)
        idx == nPar + nWin
        inputDims == weightedPoolingInputIndex(o, outputDims, windowDims)
    IN <<AffineMapGet(idx, inputDims),
         AffineMapGet(idx, windowDims),
         AffineMapGet(idx, windowDims)>>

PoolingOp_indexing_maps(o) ==
    LET nPar == getNumParallelLoops(o)
        nWin == getNumWindowLoops(o)
        idx0 == 0
        outputDims == makeAffineDimExprs(nPar, idx0)
        idx1 == idx0 + nPar
        windowDims == makeAffineDimExprs(nWin, idx1)
        idx == idx1 + nWin
        inputDims == weightedPoolingInputIndex(o, outputDims, windowDims)
    IN <<AffineMapGet(idx, inputDims),
         AffineMapGet(idx, windowDims),
         AffineMapGet(idx, outputDims)>>

\* assert(nWin > 0 && "expected at least one window dimension")
PoolingOp_indexing_maps_outcome(o, asserts) ==
    IF asserts /\ ~(getNumWindowLoops(o) > 0) THEN "assert" ELSE "ok"

indexing_maps(o) ==
    CASE o.kind = "copy" -> CopyOp_indexing_maps(o)
      [] o.kind = "fill" -> FillOp_indexing_maps(o)
      [] o.kind = "conv" -> ConvOp_indexing_maps(o)
      [] o.kind \in PoolingKinds -> PoolingOp_indexing_maps(o)
      [] OTHER -> o.indexing_maps

(***************************************************************************)
(* The operation descriptor handed to the verifier: the shaped operands     *)
(* with their roles, the indexing maps and the iterator classification.     *)
(***************************************************************************)
DescriptorOperands(o) ==
    LET shaped == getShapedOperands(o)
    IN [i \in 1..Len(shaped) |->
          [rank |-> o.operands[shaped[i]],
           role |-> IF i <= Len(inputs(o)) THEN "input" ELSE "output"]]

isWindowBased(o) == o.kind = "conv" \/ o.kind \in PoolingKinds

Descriptor(o, its, ms) ==
    [operands |-> DescriptorOperands(o),
     indexing_maps |-> ms,
     iterators |-> its,
     windowed |-> isWindowBased(o),
     library_call |-> o.library_call]

\* mutant: the map count is only checked against too few maps
verify_AllowsExtraMaps(d) ==
    LET n == IF Len(d.indexing_maps) < Len(d.operands)
             THEN Len(d.indexing_maps) ELSE Len(d.operands)
    IN IF Len(d.indexing_maps) < Len(d.operands)
       THEN "OperandMapCountMismatch"
       ELSE IF \E i \in 1..Len(d.indexing_maps) :
                  d.indexing_maps[i].numDims # Len(d.iterators)
       THEN "IteratorRankMismatch"
       ELSE IF \E i \in 1..n :
                  Len(d.indexing_maps[i].results) # d.operands[i].rank
       THEN "OperandRankMismatch"
       ELSE IF d.windowed /\ ~(CountKind(d.iterators, getWindowIteratorTypeName) > 0)
       THEN "NoWindowDimension"
       ELSE IF ~(\E i \in 1..Len(d.operands) : d.operands[i].role = "output")
       THEN "NoOutput"
       ELSE "ok"

\* verify(descriptor): the five checks in order, first failure wins
\* mutant: the operand ranks are checked before the iterator ranks
verify_RanksBeforeIterators(d) ==
    IF Len(d.indexing_maps) # Len(d.operands) THEN "OperandMapCountMismatch"
    ELSE IF \E i \in 1..Len(d.indexing_maps) :
              Len(d.indexing_maps[i].results) # d.operands[i].rank
    THEN "OperandRankMismatch"
    ELSE IF \E i \in 1..Len(d.indexing_maps) :
              d.indexing_maps[i].numDims # Len(d.iterators)
    THEN "IteratorRankMismatch"
    ELSE IF d.windowed /\ ~(CountKind(d.iterators, getWindowIteratorTypeName) > 0)
    THEN "NoWindowDimension"
    ELSE IF ~(\E i \in 1..Len(d.operands) : d.operands[i].role = "output")
    THEN "NoOutput"
    ELSE "ok"

verify(d) ==
    IF Len(d.indexing_maps) # Len(d.operands)
    THEN "OperandMapCountMismatch"
    ELSE IF \E i \in 1..Len(d.indexing_maps) :
               d.indexing_maps[i].numDims # Len(d.iterators)
    THEN "IteratorRankMismatch"
    ELSE IF \E i \in 1..Len(d.indexing_maps) :
               Len(d.indexing_maps[i].results) # d.operands[i].rank
    THEN "OperandRankMismatch"
    ELSE IF d.windowed /\ ~(CountKind(d.iterators, getWindowIteratorTypeName) > 0)
    THEN "NoWindowDimension"
    ELSE IF ~(\E i \in 1..Len(d.operands) : d.operands[i].role = "output")
    THEN "NoOutput"
    ELSE "ok"

(***************************************************************************)
(* Inputs of the builders.                                                  *)
(***************************************************************************)
SeqsUpTo(S, n) == UNION {[1..k -> S] : k \in 0..n}

\* an optional attribute array of length n: absent, or one of the arrays
OptionalArray(arrays) == {None} \cup {Some(a) : a \in arrays}

StrideArrays(n) == {[i \in 1..n |-> 2], [i \in 1..n |-> i]}
DilationArrays(n) == {[i \in 1..n |-> 1], [i \in 1..n |-> i + 2]}
PaddingArrays(n) == {[i \in 1..n |-> <<0, 0>>], [i \in 1..n |-> <<i, i + 1>>]}

\* permutations offered for an operand of rank r: identity, reversal, rotation
PermutationMaps(r) ==
    {getPermutationMap([i \in 1..r |-> i - 1]),
     getPermutationMap([i \in 1..r |-> r - i]),
     getPermutationMap([i \in 1..r |-> i % r])}

\* number of window dimensions the attributes of an op of output rank r have
ConvWindowRank(r) == IF r > 2 THEN r - 2 ELSE 0

GenericRanks == {1, 2}
GenericMapPool ==
    {getMultiDimIdentityMap(2),
     AffineMapGet(2, <<getAffineDimExpr(0)>>)}
GenericIteratorChoices ==
    {<<"parallel">>, <<"parallel", "parallel">>,
     <<"parallel", "reduction">>, <<"reduction", "window">>}
LibraryCalls == {None, Some("linalg_matmul")}

\* the values a copy is built on: one view twice, or two views
CopyValues == {<<"%a", "%a">>, <<"%a", "%b">>}

\* idle values of the variables of lowering, execution and composition
NotLowered ==
    [form |-> "none", callee |-> "", indexArgs |-> 0, operands |-> <<>>,
     nLoops |-> 0, bodyIndexArgs |-> 0, err |-> ""]
NoRun == [stage |-> "idle"]
NoComp == [stage |-> "idle"]

(***************************************************************************)
(* Canonicalization and folding.                                            *)
(***************************************************************************)
getSource(o) == o.values[inputs(o)[1]]

\* mutant: the target of a copy is read from its input
getTarget_ReturnsInput(o) == o.values[inputs(o)[1]]

getTarget(o) == o.values[outputs(o)[1]]

\* a copy of a view onto itself under identical permutations
isIdentityCopy(o) ==
    /\ o.kind = "copy"
    /\ getSource(o) = getTarget(o)
    /\ o.inputPermutation = o.outputPermutation

\* the explicit identity value of an attribute array over n window dimensions
ExplicitOr(attr, n, identity) ==
    IF hasValue(attr) THEN attr ELSE Some([i \in 1..n |-> identity])

\* absent stride, dilation and padding attributes are written out
canonicalize(o) ==
    IF isWindowBased(o)
    THEN LET n == getNumWindowLoops(o)
         IN [o EXCEPT !.strides = ExplicitOr(@, n, 1),
                      !.dilations = ExplicitOr(@, n, 1),
                      !.padding = ExplicitOr(@, n, <<0, 0>>)]
    ELSE o

(***************************************************************************)
(* Lowering.                                                                *)
(***************************************************************************)
\* mutant: every op passes its loop indices to the body
getNumPayloadInductionVariables_AllOps(o) == getNumLoops(o)

getNumPayloadInductionVariables(o) ==
    IF o.kind = "indexed_generic" THEN getNumLoops(o) ELSE 0

\* mutant: the name of the registered routine is never returned
getLibraryCallName_NeverRegistered(o) == "op_has_no_registered_library_name"

\* GenericOpBase::getLibraryCallName
getLibraryCallName(o) ==
    IF hasValue(o.library_call)
    THEN getValue(o.library_call)
    ELSE "op_has_no_registered_library_name"

\* mutant: lowering does not ask whether the descriptor was verified
lower_Unchecked(o, d, verified) ==
    IF hasValue(d.library_call)
    THEN [NotLowered EXCEPT !.form = "call",
                            !.callee = getLibraryCallName(o),
                            !.indexArgs = getNumPayloadInductionVariables(o),
                            !.operands = getShapedOperands(o)]
    ELSE [NotLowered EXCEPT !.form = "loops",
                            !.nLoops = Len(d.iterators),
                            !.bodyIndexArgs = getNumPayloadInductionVariables(o),
                            !.operands = getShapedOperands(o)]

\* lower(descriptor): a call of the bound routine or a loop nest
lower(o, d, verified) ==
    IF ~verified
    THEN [NotLowered EXCEPT !.form = "error", !.err = "UnverifiedOperation"]
    ELSE IF hasValue(d.library_call)
    THEN [NotLowered EXCEPT !.form = "call",
                            !.callee = getLibraryCallName(o),
                            !.indexArgs = getNumPayloadInductionVariables(o),
                            !.operands = getShapedOperands(o)]
    ELSE [NotLowered EXCEPT !.form = "loops",
                            !.nLoops = Len(d.iterators),
                            !.bodyIndexArgs = getNumPayloadInductionVariables(o),
                            !.operands = getShapedOperands(o)]

(***************************************************************************)
(* State machine.                                                           *)
(***************************************************************************)
Init ==
    /\ assertions \in BOOLEAN
    /\ pc = "start"
    /\ op = NoOp
    /\ iters = None
    /\ maps = None
    /\ nWinUsed = {}
    /\ verr = ""
    /\ lowered = NotLowered
    /\ run = NoRun
    /\ comp = NoComp

\* the builder leaves the op o in place; nothing is derived from it yet
Built(o) ==
    /\ op' = o
    /\ pc' = "built"
    /\ UNCHANGED <<assertions, iters, maps, nWinUsed, verr, lowered, run, comp>>

BuildCopy ==
    /\ pc = "start"
    /\ \E inputRank \in Ranks, outputRank \in Ranks, vals \in CopyValues :
         \E ip \in OptionalArray(PermutationMaps(inputRank)),
            outp \in OptionalArray(PermutationMaps(outputRank)) :
           /\ vals[1] = vals[2] => inputRank = outputRank
           /\ Built([NoOp EXCEPT !.kind = "copy",
                              !.operands = <<inputRank, outputRank>>,
                              !.values = vals,
                              !.inputPermutation = ip,
                              !.outputPermutation = outp])

BuildFill ==
    /\ pc = "start"
    /\ \E outputRank \in Ranks :
         Built([NoOp EXCEPT !.kind = "fill",
                            !.operands = <<outputRank, ScalarOperand>>])

BuildConv ==
    /\ pc = "start"
    /\ \E filterRank \in Ranks, inputRank \in Ranks, outputRank \in Ranks :
         \E s \in OptionalArray(StrideArrays(ConvWindowRank(outputRank))),
            d \in OptionalArray(DilationArrays(ConvWindowRank(outputRank))),
            p \in OptionalArray(PaddingArrays(ConvWindowRank(outputRank))) :
           Built([NoOp EXCEPT !.kind = "conv",
                              !.operands = <<filterRank, inputRank, outputRank>>,
                              !.strides = s, !.dilations = d, !.padding = p])

BuildPooling ==
    /\ pc = "start"
    /\ \E k \in PoolingKinds :
         \E inputRank \in Ranks, windowRank \in Ranks, outputRank \in Ranks :
           \E s \in OptionalArray(StrideArrays(outputRank)),
              d \in OptionalArray(DilationArrays(outputRank)),
              p \in OptionalArray(PaddingArrays(outputRank)) :
             Built([NoOp EXCEPT !.kind = k,
                                !.operands = <<inputRank, windowRank, outputRank>>,
                                !.strides = s, !.dilations = d, !.padding = p])

BuildGeneric ==
    /\ pc = "start"
    /\ \E k \in GenericKinds :
         \E ranks \in SeqsUpTo(GenericRanks, MaxGenericOperands) :
           \E nIn \in 0..Len(ranks) :
             \E ms \in SeqsUpTo(GenericMapPool, Len(ranks) + 1),
                its \in GenericIteratorChoices,
                lib \in LibraryCalls :
               Built([NoOp EXCEPT !.kind = k,
                                  !.operands = ranks,
                                  !.nInputs = nIn,
                                  !.nOutputs = Len(ranks) - nIn,
                                  !.indexing_maps = ms,
                                  !.iterator_types = its,
                                  !.library_call = lib])

\* the op's iterator_types() is called
IteratorTypes ==
    /\ pc = "built"
    /\ LET outcome == IF op.kind = "conv"
                      THEN ConvOp_iterator_types_outcome(op, assertions)
                      ELSE "ok"
       IN /\ pc' = CASE outcome = "ok" -> "typed"
                     [] outcome = "assert" -> "aborted"
                     [] OTHER -> "overflow"
          /\ iters' = IF outcome = "ok" THEN Some(iterator_types(op)) ELSE None
          /\ nWinUsed' = IF op.kind = "conv" /\ outcome # "assert"
                         THEN nWinUsed \cup {ConvOp_nWin(op)}
                         ELSE nWinUsed
    /\ UNCHANGED <<assertions, op, maps, verr, lowered, run, comp>>

\* the op's indexing_maps() is called
IndexingMaps ==
    /\ pc = "typed"
    /\ LET outcome == CASE op.kind = "conv" ->
                             ConvOp_indexing_maps_outcome(op, assertions)
                        [] op.kind \in PoolingKinds ->
                             PoolingOp_indexing_maps_outcome(op, assertions)
                        [] OTHER -> "ok"
       IN /\ pc' = CASE outcome = "ok" -> "mapped"
                     [] outcome = "assert" -> "aborted"
                     [] OTHER -> "overflow"
          /\ maps' = IF outcome = "ok" THEN Some(indexing_maps(op)) ELSE None
    /\ UNCHANGED <<assertions, op, iters, nWinUsed, verr, lowered, run, comp>>

\* the verifier runs on the descriptor
Verify ==
    /\ pc = "mapped"
    /\ verr' = verify(Descriptor(op, getValue(iters), getValue(maps)))
    /\ pc' = "verified"
    /\ UNCHANGED <<assertions, op, iters, maps, nWinUsed, lowered, run, comp>>

\* a canonicalization pattern applies: an identity copy is erased, absent
\* attributes of a window op are made explicit
Canonicalize ==
    /\ pc \in {"mapped", "verified"}
    /\ IF isIdentityCopy(op)
       THEN /\ pc' = "erased"
            /\ UNCHANGED op
       ELSE /\ canonicalize(op) # op
            /\ op' = canonicalize(op)
            /\ UNCHANGED pc
    /\ UNCHANGED <<assertions, iters, maps, nWinUsed, verr, lowered, run, comp>>

\* lower() is called on the descriptor, verified or not
Lower ==
    /\ pc \in {"mapped", "verified"}
    /\ lowered' = lower(op, Descriptor(op, getValue(iters), getValue(maps)), verr = "ok")
    /\ pc' = "lowered"
    /\ UNCHANGED <<assertions, op, iters, maps, nWinUsed, verr, run, comp>>

Next ==
    \/ BuildCopy
    \/ BuildFill
    \/ BuildConv
    \/ BuildPooling
    \/ BuildGeneric
    \/ IteratorTypes
    \/ IndexingMaps
    \/ Verify
    \/ Canonicalize
    \/ Lower

Spec == Init /\ [][Next]_vars

(***************************************************************************)
(* Execution of the loop nest a pooling op of rank 2 is lowered to.  The    *)
(* input and window shapes and the input's content are chosen; the output   *)
(* shape is the one whose every window lies inside the input.               *)
(***************************************************************************)
PoolInputShape == <<4, 4>>

PoolInputs ==
    {<<<<1, 2, 3, 4>>, <<5, 6, 7, 8>>, <<9, 10, 11, 12>>, <<13, 14, 15, 16>>>>,
     <<<<16, 15, 14, 13>>, <<12, 11, 10, 9>>, <<8, 7, 6, 5>>, <<4, 3, 2, 1>>>>,
     <<<<3, 1, 4, 1>>, <<5, 9, 2, 6>>, <<5, 3, 5, 8>>, <<9, 7, 9, 3>>>>}

PoolWindowShapes == {<<2, 2>>, <<1, 2>>, <<3, 1>>}
PoolStrides == {None, Some(<<2, 2>>), Some(<<1, 2>>)}
PoolDilations == {None, Some(<<1, 1>>), Some(<<2, 1>>)}
PoolPaddings == {None, Some(<<<<0, 0>>, <<0, 0>>>>)}

\* the number of window positions along dimension i (0-based) of the input
PoolOutputExtent(o, windowShape, i) ==
    (PoolInputShape[i + 1] + getLowPad(o, i) + getHighPad(o, i)
        - getDilation(o, i) * (windowShape[i + 1] - 1) - 1) \div getStride(o, i) + 1

\* the value an output element holds before the first window element is seen
PoolingMax_init == 0

\* PoolingMaxOp: the body keeps the larger of the output and the input value
PoolingMax_body(inValue, outValue) == IF inValue > outValue THEN inValue ELSE outValue

RECURSIVE ProductFrom(_, _)
ProductFrom(bounds, i) ==
    IF i > Len(bounds) THEN 1 ELSE bounds[i] * ProductFrom(bounds, i + 1)

\* the k-th (0-based) point of the loop nest with the given upper bounds, the
\* first loop outermost
LoopPoint(bounds, k) ==
    [i \in 1..Len(bounds) |-> (k \div ProductFrom(bounds, i + 1)) % bounds[i]]

InBounds(coord, shape) ==
    \A i \in 1..Len(shape) : coord[i] >= 0 /\ coord[i] < shape[i]

InitPool ==
    /\ assertions \in BOOLEAN
    /\ pc = "lowered"
    /\ \E st \in PoolStrides, dl \in PoolDilations, pd \in PoolPaddings :
         op = [NoOp EXCEPT !.kind = "pooling_max",
                           !.operands = <<2, 2, 2>>,
                           !.strides = st,
                           !.dilations = dl,
                           !.padding = pd]
    /\ iters = Some(iterator_types(op))
    /\ maps = Some(indexing_maps(op))
    /\ nWinUsed = {}
    /\ verr = verify(Descriptor(op, getValue(iters), getValue(maps)))
    /\ lowered = lower(op, Descriptor(op, getValue(iters), getValue(maps)), verr = "ok")
    /\ \E input \in PoolInputs, windowShape \in PoolWindowShapes :
         LET outputShape == [i \in 1..2 |-> PoolOutputExtent(op, windowShape, i - 1)]
         IN run = [stage |-> "running",
                   input |-> input,
                   windowShape |-> windowShape,
                   outputShape |-> outputShape,
                   k |-> 0,
                   output |-> [i \in 1..outputShape[1] |->
                                 [j \in 1..outputShape[2] |-> PoolingMax_init]]]
    /\ comp = NoComp

\* one iteration of the innermost loop body: the input map gives the element
\* read, the output map the element combined with it and written
RunStep ==
    /\ pc = "lowered"
    /\ lowered.form = "loops"
    /\ run.stage = "running"
    /\ LET bounds == run.outputShape \o run.windowShape
           point == LoopPoint(bounds, run.k)
           inCoord == EvalMap(getValue(maps)[1], point)
           outCoord == EvalMap(getValue(maps)[3], point)
       IN IF run.k = ProductFrom(bounds, 1)
          THEN run' = [run EXCEPT !.stage = "done"]
          ELSE IF ~InBounds(inCoord, PoolInputShape) \/ ~InBounds(outCoord, run.outputShape)
          THEN run' = [run EXCEPT !.stage = "fault"]
          ELSE run' = [run EXCEPT
                         !.k = @ + 1,
                         !.output[outCoord[1] + 1][outCoord[2] + 1] =
                             PoolingMax_body(run.input[inCoord[1] + 1][inCoord[2] + 1], @)]
    /\ UNCHANGED <<assertions, pc, op, iters, maps, nWinUsed, verr, lowered, comp>>

NextPool == RunStep

SpecPool == InitPool /\ [][NextPool]_vars

(***************************************************************************)
(* Composition of affine maps.  The outer map is the map a copy built       *)
(* without permutation attributes gets for its input or its output, or a    *)
(* permutation map; the inner map is a permutation map.                     *)
(***************************************************************************)
\* e with the expressions rs[d + 1] put in place of its dimensions d
RECURSIVE SubstituteTerms(_, _)
SubstituteTerms(lin, rs) ==
    IF lin = {} THEN getAffineConstantExpr(0)
    ELSE LET t == CHOOSE u \in lin : TRUE
         IN AddE(MulE(t[2], rs[t[1] + 1]), SubstituteTerms(lin \ {t}, rs))

Substitute(e, rs) == AddE(getAffineConstantExpr(e.c), SubstituteTerms(e.lin, rs))

\* compose(outer, inner): inner's results replace outer's dimensions
compose(outer, inner) ==
    IF outer.numDims # Len(inner.results)
    THEN [err |-> "RankMismatch", map |-> None]
    ELSE [err |-> "",
          map |-> Some(AffineMapGet(inner.numDims,
                                    [i \in 1..Len(outer.results) |->
                                        Substitute(outer.results[i], inner.results)]))]

\* all permutation maps of rank r
AllPermutationMaps(r) ==
    {getPermutationMap([i \in 1..r |-> p[i] - 1]) : p \in Permutations(1..r)}

ComposeRequest(from, outer, inner) ==
    [stage |-> "ready", from |-> from, outer |-> outer, inner |-> inner,
     err |-> "", map |-> None]

InitCompose ==
    /\ assertions \in BOOLEAN
    /\ iters = None
    /\ maps = None
    /\ nWinUsed = {}
    /\ verr = ""
    /\ lowered = NotLowered
    /\ run = NoRun
    /\ \E r \in Ranks : \E inner \in AllPermutationMaps(r) :
         \/ /\ pc = "built"
            /\ \E inputRank \in Ranks, outputRank \in Ranks :
                 op = [NoOp EXCEPT !.kind = "copy",
                                   !.operands = <<inputRank, outputRank>>,
                                   !.values = <<"%a", "%b">>]
            /\ \/ comp = ComposeRequest("input", CopyOp_indexing_maps(op)[1], inner)
               \/ comp = ComposeRequest("output", CopyOp_indexing_maps(op)[2], inner)
         \/ /\ pc = "start"
            /\ op = NoOp
            /\ \E s \in Ranks : \E outer \in AllPermutationMaps(s) :
                 comp = ComposeRequest("given", outer, inner)

\* compose is applied to the two maps
ComposeMaps ==
    /\ comp.stage = "ready"
    /\ LET c == compose(comp.outer, comp.inner)
       IN comp' = [comp EXCEPT !.stage = "done", !.err = c.err, !.map = c.map]
    /\ UNCHANGED <<assertions, pc, op, iters, maps, nWinUsed, verr, lowered, run>>

NextCompose == ComposeMaps

SpecCompose == InitCompose /\ [][NextCompose]_vars

(***************************************************************************)
(* Helpers of the properties.                                               *)
(***************************************************************************)
NamedKinds == {"copy", "fill", "conv"} \cup PoolingKinds

\* the iteration points an affine expression is compared on: the origin, the
\* unit points (an affine basis) and two points with all coordinates non-zero
SamplePoints(n) ==
    {[i \in 1..n |-> 0], [i \in 1..n |-> 2 * i + 1], [i \in 1..n |-> i * i]}
      \cup {[i \in 1..n |-> IF i = j THEN 1 ELSE 0] : j \in 1..n}

\* value of an optional attribute array at position i (1-based), or its default
AttrOr(attr, i, default) == IF attr = None THEN default ELSE attr[1][i]

OutputRank == op.operands[Len(op.operands)]

\* the window count of the current op, counted on the produced classification
WindowCount == CountKind(getValue(iters), "window")

\* the input map of a window op and the dimensions of its i-th (1-based)
\* output and window coordinates
WindowInputMap == IF op.kind = "conv" THEN getValue(maps)[2] ELSE getValue(maps)[1]
SpatialResult(i) == IF op.kind = "conv" THEN i + 1 ELSE i
OutputCoordDim(i) == IF op.kind = "conv" THEN i ELSE i - 1
WindowCoordDim(i) ==
    IF op.kind = "conv" THEN WindowCount + 2 + i ELSE OutputRank + i - 1

\* C1: in the input map of every conv and pooling op, the i-th spatial result
\* is output_coord[i] * stride[i] + window_coord[i] * dilation[i] - low_pad[i];
\* with strides [2,2], dilations [1,1] and no padding a conv reads
\* (2*x0 + z0, 2*x1 + z1).
C1_WeightedInputIndex ==
    (isWindowBased(op) /\ hasValue(maps)) =>
        /\ \A i \in 1..WindowCount :
             \A pt \in SamplePoints(WindowInputMap.numDims) :
               EvalExpr(WindowInputMap.results[SpatialResult(i)], pt)
                 = pt[OutputCoordDim(i) + 1] * AttrOr(op.strides, i, 1)
                     + pt[WindowCoordDim(i) + 1] * AttrOr(op.dilations, i, 1)
                     - (IF op.padding = None THEN 0 ELSE op.padding[1][i][1])
        /\ (/\ op.kind = "conv"
            /\ op.strides = Some(<<2, 2>>)
            /\ op.dilations \in {None, Some(<<1, 1>>)}
            /\ op.padding \in {None, Some(<<<<0, 0>>, <<0, 0>>>>)})
           => \A pt \in SamplePoints(7) :
                /\ EvalExpr(getValue(maps)[2].results[2], pt) = 2 * pt[2] + pt[6]
                /\ EvalExpr(getValue(maps)[2].results[3], pt) = 2 * pt[3] + pt[7]

C1_Witness ==
    /\ pc = "mapped"
    /\ op.kind = "conv"
    /\ op.strides = Some(<<2, 2>>)
    /\ op.dilations = Some(<<1, 1>>)
    /\ op.padding = Some(<<<<0, 0>>, <<0, 0>>>>)
    /\ Len(getValue(maps)[2].results) = 4

\* C2: a conv of output rank R >= 3 has exactly R parallel iterators, then 1
\* reduction iterator, then R - 2 window iterators, and no parallel iterator
\* after a reduction or window one.
C2_ConvIteratorLayout ==
    (op.kind = "conv" /\ OutputRank >= 3 /\ pc \in {"typed", "mapped", "verified"}) =>
        /\ hasValue(iters)
        /\ LET its == getValue(iters)
               R == OutputRank
           IN /\ Len(its) = 2 * R - 1
              /\ \A i \in 1..R : its[i] = "parallel"
              /\ its[R + 1] = "reduction"
              /\ \A i \in (R + 2)..(2 * R - 1) : its[i] = "window"
              /\ \A i \in 1..Len(its), j \in 1..Len(its) :
                   (i < j /\ its[i] \in {"reduction", "window"})
                     => its[j] # "parallel"

C2_Witness ==
    /\ pc = "typed"
    /\ op.kind = "conv"
    /\ OutputRank = 4
    /\ getValue(iters)[5] = "reduction"

\* every indexing map of the produced descriptor has the iterator count as
\* its domain rank
AllDomainRanksMatch ==
    \A i \in 1..Len(getValue(maps)) :
        getValue(maps)[i].numDims = Len(getValue(iters))

\* C3 as stated: every map of every descriptor a named variant produces has
\* the length of the iterator classification as its domain rank, copy included.
C3_Original ==
    (op.kind \in NamedKinds /\ hasValue(maps)) => AllDomainRanksMatch

\* C3, amended: the domain ranks are 2R-1 for conv, 2R for pooling and R for
\* fill, each the iterator count; for copy the iterator count is the input
\* rank and each map has the rank of its own operand as domain rank, so the
\* output map matches the iterator count only when the input and output
\* ranks agree.
C3_DomainRanks ==
    (op.kind \in NamedKinds /\ hasValue(maps)) =>
        LET ms == getValue(maps)
            R == OutputRank
        IN /\ op.kind = "conv" =>
                /\ AllDomainRanksMatch
                /\ Len(ms) = 3
                /\ \A i \in 1..3 : ms[i].numDims = 2 * R - 1
           /\ op.kind \in PoolingKinds =>
                /\ AllDomainRanksMatch
                /\ Len(ms) = 3
                /\ \A i \in 1..3 : ms[i].numDims = 2 * R
           /\ op.kind = "fill" =>
                /\ AllDomainRanksMatch
                /\ ms[Len(ms)].numDims = op.operands[1]
           /\ op.kind = "copy" =>
                /\ Len(getValue(iters)) = op.operands[1]
                /\ ms[1].numDims = op.operands[1]
                /\ ms[2].numDims = op.operands[2]
                /\ op.operands[1] = op.operands[2] => AllDomainRanksMatch
                /\ op.operands[1] # op.operands[2] => ~AllDomainRanksMatch

C3_Witness ==
    /\ pc = "mapped"
    /\ op.kind = "copy"
    /\ op.operands = <<1, 2>>
    /\ getValue(maps)[2].numDims = 2
    /\ Len(getValue(iters)) = 1

\* the number of results of the i-th map of the produced descriptor
ResultCount(i) == Len(getValue(maps)[i].results)

\* C4: the maps of a conv with N window dimensions (filter, input, output)
\* have N+2 results each and those of a pooling op of output rank R have R
\* results each; a conv or pooling descriptor the verifier accepts has, for
\* each map, an operand of exactly that rank, and one with an operand of
\* another rank is not accepted.
C4_ResultArity ==
    (isWindowBased(op) /\ hasValue(maps)) =>
        /\ Len(getValue(maps)) = 3
        /\ op.kind = "conv" => \A i \in 1..3 : ResultCount(i) = WindowCount + 2
        /\ op.kind \in PoolingKinds => \A i \in 1..3 : ResultCount(i) = OutputRank
        /\ (pc = "verified" /\ verr = "ok") =>
              \A i \in 1..3 : op.operands[i] = ResultCount(i)
        /\ (pc = "verified" /\ \E i \in 1..3 : op.operands[i] # ResultCount(i)) =>
              verr # "ok"

C4_Witness ==
    /\ pc = "verified"
    /\ verr = "ok"
    /\ op.kind = "conv"
    /\ WindowCount = 2
    /\ ResultCount(1) = 4

\* an unsigned window count that is zero, or that wrapped around
ZeroOrWrapped(n) == n.hi # 0 \/ n.lo = 0

\* C5: a conv whose output rank is at most 2 always ends in the verifier's
\* NoWindowDimension error: no iterator classification and no indexing map is
\* produced for it, no window count of zero or below is used, and the run
\* ends nowhere else than in that verification error.
C5_NoWindowDimension ==
    (op.kind = "conv" /\ OutputRank <= 2) =>
        /\ iters = None
        /\ maps = None
        /\ \A n \in nWinUsed : ~ZeroOrWrapped(n)
        /\ pc \notin {"aborted", "overflow"}
        /\ pc = "verified" => verr = "NoWindowDimension"

\* C6: a pooling op of output rank R >= 1 has R parallel then R window
\* iterators; its output map returns dimensions 0..R-1 in order, its
\* window-shape map dimensions R..2R-1 in order, and the i-th result of its
\* input map is built from the i-th parallel and the i-th window dimension
\* only, weighted by stride and dilation and shifted by the low padding.
C6_PoolingLayout ==
    (op.kind \in PoolingKinds /\ OutputRank >= 1) =>
        LET R == OutputRank
        IN /\ pc \in {"typed", "mapped", "verified"} =>
                /\ Len(getValue(iters)) = 2 * R
                /\ \A i \in 1..R : getValue(iters)[i] = "parallel"
                /\ \A i \in (R + 1)..(2 * R) : getValue(iters)[i] = "window"
           /\ pc \in {"mapped", "verified"} =>
                LET ms == getValue(maps)
                IN /\ Len(ms) = 3
                   /\ ms[3].results = [i \in 1..R |-> [lin |-> {<<i - 1, 1>>}, c |-> 0]]
                   /\ ms[2].results = [i \in 1..R |-> [lin |-> {<<R + i - 1, 1>>}, c |-> 0]]
                   /\ Len(ms[1].results) = R
                   /\ \A i \in 1..R :
                        LET e == ms[1].results[i]
                        IN /\ ExprDims(e) \subseteq {i - 1, R + i - 1}
                           /\ Coef(e, i - 1) = AttrOr(op.strides, i, 1)
                           /\ Coef(e, R + i - 1) = AttrOr(op.dilations, i, 1)
                           /\ e.c = 0 - (IF op.padding = None THEN 0
                                         ELSE op.padding[1][i][1])

C6_Witness ==
    /\ pc = "mapped"
    /\ op.kind = "pooling_max"
    /\ OutputRank = 2
    /\ op.strides = Some(<<1, 2>>)
    /\ getValue(maps)[1].results[2].lin = {<<1, 2>>, <<3, 1>>}

\* the shaped operands of the op do not all have the same rank
RanksDisagree ==
    \E i \in 1..Len(getShapedOperands(op)), j \in 1..Len(getShapedOperands(op)) :
        op.operands[getShapedOperands(op)[i]] # op.operands[getShapedOperands(op)[j]]

\* C7 as stated: a named op whose operand ranks disagree fails at construction
\* with ShapeMismatch: it is never built and nothing is derived from it.
C7_Original ==
    (op.kind \in NamedKinds /\ RanksDisagree) =>
        /\ verr = "ShapeMismatch"
        /\ pc \notin {"built", "typed", "mapped", "verified"}
        /\ iters = None
        /\ maps = None

\* C7, amended: operand ranks that disagree are not rejected at construction
\* and no ShapeMismatch is raised; the op is built, its iterator classification
\* and indexing maps are derived from it, and it is the verifier that rejects
\* the descriptor, a copy with IteratorRankMismatch, a conv or pooling op with
\* OperandRankMismatch.
C7_RankMismatchLeftToVerify ==
    (op.kind \in NamedKinds /\ RanksDisagree) =>
        /\ verr # "ShapeMismatch"
        /\ pc \in {"typed", "mapped", "verified"} => hasValue(iters)
        /\ pc \in {"mapped", "verified"} => hasValue(maps)
        /\ (pc \in {"mapped", "verified"} /\ op.kind = "copy") =>
              /\ Len(getValue(iters)) = op.operands[1]
              /\ getValue(maps)[2].numDims = op.operands[2]
        /\ pc = "verified" =>
              verr = IF op.kind = "copy" THEN "IteratorRankMismatch"
                     ELSE "OperandRankMismatch"

C7_Witness ==
    /\ pc = "verified"
    /\ op.kind = "copy"
    /\ op.operands[1] # op.operands[2]
    /\ verr = "IteratorRankMismatch"

\* the identity map of rank r, written out
IdentityOfRank(r) ==
    [numDims |-> r, results |-> [i \in 1..r |-> [lin |-> {<<i - 1, 1>>}, c |-> 0]]]

\* C8: a copy has only parallel iterators, as many as the input rank; its
\* input map is the input permutation when given and else the identity of the
\* input rank, its output map the output permutation when given and else the
\* identity of the output rank; the first operand is its only input and the
\* last operand its only output.
C8_CopyDescriptor ==
    (op.kind = "copy") =>
        /\ pc \in {"typed", "mapped", "verified"} =>
              /\ Len(getValue(iters)) = op.operands[1]
              /\ \A i \in 1..Len(getValue(iters)) : getValue(iters)[i] = "parallel"
        /\ pc \in {"mapped", "verified"} =>
              /\ Len(getValue(maps)) = 2
              /\ getValue(maps)[1] = IF op.inputPermutation = None
                                     THEN IdentityOfRank(op.operands[1])
                                     ELSE op.inputPermutation[1]
              /\ getValue(maps)[2] = IF op.outputPermutation = None
                                     THEN IdentityOfRank(op.operands[2])
                                     ELSE op.outputPermutation[1]
        /\ inputs(op) = <<1>>
        /\ outputs(op) = <<Len(op.operands)>>
        /\ DescriptorOperands(op) =
              <<[rank |-> op.operands[1], role |-> "input"],
                [rank |-> op.operands[2], role |-> "output"]>>

C8_Witness ==
    /\ pc = "mapped"
    /\ op.kind = "copy"
    /\ op.operands = <<3, 3>>
    /\ op.inputPermutation = None
    /\ op.outputPermutation # None
    /\ getValue(maps)[1] = IdentityOfRank(3)
    /\ getValue(maps)[2] # IdentityOfRank(3)

\* C9: a fill has only parallel iterators, as many as the output rank, and
\* exactly one indexing map, the identity of the output rank, paired with the
\* output; the scalar value has no map; there is no input and the output is
\* the first operand.
C9_FillDescriptor ==
    (op.kind = "fill") =>
        /\ pc \in {"typed", "mapped", "verified"} =>
              /\ Len(getValue(iters)) = op.operands[1]
              /\ \A i \in 1..Len(getValue(iters)) : getValue(iters)[i] = "parallel"
        /\ pc \in {"mapped", "verified"} =>
              getValue(maps) = <<IdentityOfRank(op.operands[1])>>
        /\ inputs(op) = <<>>
        /\ outputs(op) = <<1>>
        /\ DescriptorOperands(op) = <<[rank |-> op.operands[1], role |-> "output"]>>
        /\ op.operands[2] = ScalarOperand

C9_Witness ==
    /\ pc = "mapped"
    /\ op.kind = "fill"
    /\ op.operands[1] = 3
    /\ Len(getValue(maps)) = 1
    /\ Len(getValue(iters)) = 3

\* C10: whichever builder made the op, the verifier answers
\* OperandMapCountMismatch whenever the number of indexing maps differs from
\* the number of operands the maps are paired with, and never accepts such a
\* descriptor.
C10_MapCountChecked ==
    (pc = "verified" /\ Len(getValue(maps)) # Len(getShapedOperands(op))) =>
        verr = "OperandMapCountMismatch"

C10_Witness ==
    /\ pc = "verified"
    /\ op.kind = "generic"
    /\ Len(op.indexing_maps) = 1
    /\ Len(op.operands) = 2
    /\ verr = "OperandMapCountMismatch"

(***************************************************************************)
(* The five checks of the verifier, each stated on its own on the derived   *)
(* lists of the current op.                                                 *)
(***************************************************************************)
ShapedRanks == [i \in 1..Len(getShapedOperands(op)) |-> op.operands[getShapedOperands(op)[i]]]

PairedCount ==
    IF Len(getValue(maps)) < Len(ShapedRanks) THEN Len(getValue(maps)) ELSE Len(ShapedRanks)

MapCountPasses == Len(getValue(maps)) = Len(ShapedRanks)

IteratorRankPasses ==
    \A i \in 1..Len(getValue(maps)) : getValue(maps)[i].numDims = Len(getValue(iters))

OperandRankPasses ==
    \A i \in 1..PairedCount : Len(getValue(maps)[i].results) = ShapedRanks[i]

WindowDimensionPasses ==
    (op.kind = "conv" \/ op.kind \in PoolingKinds)
        => \E i \in 1..Len(getValue(iters)) : getValue(iters)[i] = "window"

OutputPresencePasses == Len(outputs(op)) > 0

FailedChecks ==
    {k \in 1..5 : ~(CASE k = 1 -> MapCountPasses
                      [] k = 2 -> IteratorRankPasses
                      [] k = 3 -> OperandRankPasses
                      [] k = 4 -> WindowDimensionPasses
                      [] OTHER -> OutputPresencePasses)}

CheckError(k) ==
    CASE k = 1 -> "OperandMapCountMismatch"
      [] k = 2 -> "IteratorRankMismatch"
      [] k = 3 -> "OperandRankMismatch"
      [] k = 4 -> "NoWindowDimension"
      [] OTHER -> "NoOutput"

\* C11: verify applies the five checks in the fixed order map count, iterator
\* rank, operand rank, window dimension, output presence: its result is the
\* error of the lowest-numbered check that fails, and it is success exactly
\* when all five checks pass.
C11_FirstFailingCheck ==
    verr # "" =>
        /\ FailedChecks = {} <=> verr = "ok"
        /\ FailedChecks # {} =>
              \E k \in FailedChecks :
                  /\ \A j \in FailedChecks : k <= j
                  /\ verr = CheckError(k)

\* a descriptor failing the iterator-rank, operand-rank and output-presence
\* checks at once is reported with the iterator-rank error
C11_Witness ==
    /\ verr = "IteratorRankMismatch"
    /\ FailedChecks = {2, 3, 5}

(***************************************************************************)
(* Lowering and verification.                                               *)
(***************************************************************************)
LoweredForms == {"call", "loops"}

\* C12: lower on a descriptor that has not passed verify (never verified, or
\* verified with an error) fails with UnverifiedOperation and produces no
\* lowered form; in every sequence of construct, canonicalize, verify and
\* lower steps a lowered form exists only for a descriptor whose latest
\* verification succeeded.
C12_LoweredOnlyIfVerified ==
    /\ lowered.form \in LoweredForms => verr = "ok"
    /\ (pc = "lowered" /\ verr # "ok") =>
           /\ lowered.form = "error"
           /\ lowered.err = "UnverifiedOperation"
    /\ pc # "lowered" => lowered = NotLowered

\* lower was called on a canonicalized descriptor that failed verification
C12_Witness ==
    /\ pc = "lowered"
    /\ verr \notin {"", "ok"}
    /\ lowered.err = "UnverifiedOperation"
    /\ isWindowBased(op) /\ op = canonicalize(op)

(***************************************************************************)
(* Lowering of generic ops.                                                 *)
(***************************************************************************)
\* the operand positions of a generic op: all inputs, then all outputs
InputsThenOutputs ==
    [i \in 1..(op.nInputs + op.nOutputs) |->
        IF i <= op.nInputs THEN inputs(op)[i] ELSE outputs(op)[i - op.nInputs]]

Support(m) == UNION {ExprDims(m.results[r]) : r \in 1..Len(m.results)}

\* the differences q - p of two iteration points p, q with coordinates in
\* 0..MaxCoord, on the dimensions in S (the other dimensions do not matter to
\* a map whose support is S and are left equal)
Differences(S) == [S -> (0 - MaxCoord)..MaxCoord]

\* the difference v as a point of an n-dimensional iteration space
AsPoint(v, S, n) == [i \in 1..n |-> IF (i - 1) \in S THEN v[i - 1] ELSE 0]

\* two iteration points that differ in dimension d are mapped by m to the same
\* coordinates: m is affine, so this is a difference with a non-zero d-th
\* entry on which every result of m changes by zero
MapsTwoPointsTogether(m, d) ==
    LET S == Support(m)
        origin == [i \in 1..m.numDims |-> 0]
    IN \/ d \notin S
       \/ \E v \in Differences(S) :
            /\ v[d] # 0
            /\ LET pt == AsPoint(v, S, m.numDims)
               IN \A r \in 1..Len(m.results) :
                     EvalExpr(m.results[r], pt) = EvalExpr(m.results[r], origin)

ParallelDims == {d \in 0..(Len(getValue(iters)) - 1) : getValue(iters)[d + 1] = "parallel"}

OutputMaps ==
    {getValue(maps)[i] : i \in (Len(inputs(op)) + 1)..Len(getValue(maps))}

NoParallelDimensionAliases ==
    \A m \in OutputMaps : \A d \in ParallelDims : ~MapsTwoPointsTogether(m, d)

\* C14 as stated: for every verified descriptor and every dimension classified
\* parallel, two iteration points that differ in that dimension are mapped by
\* each output indexing map to different output coordinates.
C14_Original ==
    (pc = "verified" /\ verr = "ok") => NoParallelDimensionAliases

\* C14: for every verified descriptor of Copy, Fill, Convolution or Pooling and
\* every dimension classified parallel, two iteration points that differ in
\* that dimension are mapped by each output indexing map to different output
\* coordinates; the maps of Generic and Indexed-Generic are the user's, and
\* the verifier does not look at what they refer to.
C14_ParallelWritesDisjoint ==
    (pc = "verified" /\ verr = "ok" /\ op.kind \in NamedKinds)
        => NoParallelDimensionAliases

\* a verified strided pooling of rank 2: two parallel dimensions, one output map
C14_Witness ==
    /\ pc = "verified"
    /\ verr = "ok"
    /\ op.kind = "pooling_sum"
    /\ op.strides = Some(<<2, 2>>)
    /\ Cardinality(ParallelDims) = 2
    /\ Cardinality(OutputMaps) = 1
    /\ NoParallelDimensionAliases

(***************************************************************************)
(* The result of the pooling loop nest.                                     *)
(***************************************************************************)
MaxOf(S) == CHOOSE m \in S : \A y \in S : y <= m

\* input[x * stride + z * dilation - low_pad] for all window coordinates z
WindowValues(x) ==
    {run.input[x[1] * AttrOr(op.strides, 1, 1) + z[1] * AttrOr(op.dilations, 1, 1)
                 - AttrOr(op.padding, 1, <<0, 0>>)[1] + 1]
              [x[2] * AttrOr(op.strides, 2, 1) + z[2] * AttrOr(op.dilations, 2, 1)
                 - AttrOr(op.padding, 2, <<0, 0>>)[1] + 1] :
        z \in (0..(run.windowShape[1] - 1)) \X (0..(run.windowShape[2] - 1))}

ExampleInput == <<<<1, 2, 3, 4>>, <<5, 6, 7, 8>>, <<9, 10, 11, 12>>, <<13, 14, 15, 16>>>>

IsExample ==
    /\ run.input = ExampleInput
    /\ run.windowShape = <<2, 2>>
    /\ op.strides = Some(<<2, 2>>)
    /\ op.padding = None
    /\ op.dilations = None

\* C15: the loop nest a verified Pooling-max descriptor is lowered to writes,
\* for every output coordinate x, the maximum over all window coordinates z of
\* input[x * stride + z * dilation - low_pad]; the 4x4 input 1..16 with window
\* 2x2, stride 2 and no padding verifies and yields [[6, 8], [14, 16]].
C15_PoolingMaxResult ==
    /\ verr = "ok"
    /\ lowered.form = "loops"
    /\ run.stage # "fault"
    /\ run.stage = "done" =>
          \A i \in 1..run.outputShape[1], j \in 1..run.outputShape[2] :
              run.output[i][j] = MaxOf(WindowValues(<<i - 1, j - 1>>))
    /\ (run.stage = "done" /\ IsExample) => run.output = <<<<6, 8>>, <<14, 16>>>>

\* the loop nest of the example has run to its end
C15_Witness ==
    /\ run.stage = "done"
    /\ IsExample
    /\ run.outputShape = <<2, 2>>
    /\ run.output = <<<<6, 8>>, <<14, 16>>>>

(***************************************************************************)
(* Absent attributes and canonicalization.                                  *)
(***************************************************************************)
\* the op with every attribute array written out from the accessors
WithExplicitAttributes ==
    [op EXCEPT !.strides = Some([i \in 1..WindowCount |-> getStride(op, i - 1)]),
               !.dilations = Some([i \in 1..WindowCount |-> getDilation(op, i - 1)]),
               !.padding = Some([i \in 1..WindowCount |->
                                   <<getLowPad(op, i - 1), getHighPad(op, i - 1)>>])]

\* C16: absent strides, dilations and padding mean stride 1, dilation 1 and low
\* and high padding 0 in every window dimension; the canonicalized descriptor
\* equals the one built with those values given explicitly (same attributes,
\* same iterator classification, same maps), and carries no absent attribute.
C16_AbsentMeansIdentity ==
    (isWindowBased(op) /\ maps # None) =>
        /\ \A i \in 0..(WindowCount - 1) :
              /\ op.strides = None => getStride(op, i) = 1
              /\ op.dilations = None => getDilation(op, i) = 1
              /\ op.padding = None => getLowPad(op, i) = 0 /\ getHighPad(op, i) = 0
        /\ canonicalize(op) = WithExplicitAttributes
        /\ iterator_types(canonicalize(op)) = getValue(iters)
        /\ indexing_maps(canonicalize(op)) = getValue(maps)
        /\ indexing_maps(op) = getValue(maps)
        /\ hasValue(canonicalize(op).strides)
        /\ Len(getValue(canonicalize(op).strides)) = WindowCount
        /\ hasValue(canonicalize(op).dilations)
        /\ Len(getValue(canonicalize(op).dilations)) = WindowCount
        /\ hasValue(canonicalize(op).padding)
        /\ Len(getValue(canonicalize(op).padding)) = WindowCount

\* a convolution built without strides and padding was canonicalized and lowered
C16_Witness ==
    /\ op.kind = "conv"
    /\ op.strides = Some(<<1, 1>>)
    /\ op.dilations = Some(<<3, 4>>)
    /\ op.padding = Some(<<<<0, 0>>, <<0, 0>>>>)
    /\ pc = "lowered"
    /\ lowered.form = "loops"

(***************************************************************************)
(* Folding of copies.                                                       *)
(***************************************************************************)
SameOperandAndPermutations ==
    /\ op.values[1] = op.values[2]
    /\ op.inputPermutation = op.outputPermutation

\* the operands the lowered form reads or writes
MemoryTouched ==
    IF lowered.form \in LoweredForms
    THEN {lowered.operands[i] : i \in 1..Len(lowered.operands)}
    ELSE {}

\* C17: a Copy whose source and destination are the same operand, with
\* identical permutations, folds to a no-op: canonicalization erases it and
\* nothing is left whose lowering would read or write memory; a Copy whose
\* source and destination differ, or whose permutations differ, is never
\* folded away.
C17_IdentityCopyFolds ==
    /\ [](pc = "erased" =>
            /\ op.kind = "copy"
            /\ SameOperandAndPermutations
            /\ MemoryTouched = {})
    /\ [][(op.kind = "copy" /\ Canonicalize) =>
              /\ SameOperandAndPermutations
              /\ pc' = "erased"]_vars

\* a verified copy of a view onto itself, permuted alike on both sides, is gone
C17_Witness ==
    /\ pc = "erased"
    /\ verr = "ok"
    /\ op.operands = <<3, 3>>
    /\ op.inputPermutation # None
    /\ op.inputPermutation = op.outputPermutation

(***************************************************************************)
(* Composition with the identity.                                           *)
(***************************************************************************)
\* the result is a map that sends every sample point where inner sends it
AgreesWith(result, inner) ==
    /\ result.numDims = inner.numDims
    /\ Len(result.results) = Len(inner.results)
    /\ \A pt \in SamplePoints(inner.numDims) : EvalMap(result, pt) = EvalMap(inner, pt)

\* C18: compose(identity(r), P) = P for every rank r and every permutation P
\* of r axes; compose fails with RankMismatch exactly when the outer map's
\* domain rank differs from the inner map's result count; and the map a Copy
\* without a permutation attribute gets for an operand is identity(rank of
\* that operand).
C18_IdentityComposes ==
    /\ comp.from = "input" => comp.outer = IdentityOfRank(op.operands[1])
    /\ comp.from = "output" => comp.outer = IdentityOfRank(op.operands[2])
    /\ comp.stage = "done" =>
          /\ comp.err = "RankMismatch" <=> comp.outer.numDims # Len(comp.inner.results)
          /\ comp.err # "RankMismatch" => comp.err = "" /\ comp.map # None
          /\ comp.err = "RankMismatch" => comp.map = None
          /\ comp.outer = IdentityOfRank(Len(comp.inner.results)) =>
                /\ comp.map = Some(comp.inner)
                /\ AgreesWith(comp.map[1], comp.inner)

\* the input map of a rank-3 copy was composed with a rotation of three axes
C18_Witness ==
    /\ comp.stage = "done"
    /\ comp.from = "input"
    /\ op.operands[1] = 3
    /\ comp.inner = getPermutationMap(<<1, 2, 0>>)
    /\ comp.map = Some(comp.inner)

(***************************************************************************)
(* Iteration coordinates handed to the body.                                *)
(***************************************************************************)
\* C19: the number of iteration-coordinate arguments passed to the
\* per-element body equals the number of loops for Indexed-Generic and is 0
\* for every other variant.
C19_PayloadInductionVariables ==
    /\ iters # None =>
          getNumPayloadInductionVariables(op) =
              IF op.kind = "indexed_generic" THEN Len(iters[1]) ELSE 0
    /\ lowered.form = "loops" =>
          lowered.bodyIndexArgs =
              IF op.kind = "indexed_generic" THEN lowered.nLoops ELSE 0

\* the loop nest of an indexed generic op with two loops passes two indices
C19_Witness ==
    /\ op.kind = "indexed_generic"
    /\ lowered.form = "loops"
    /\ lowered.nLoops = 2
    /\ lowered.bodyIndexArgs = 2

(***************************************************************************)
(* Dimension counting of a convolution.                                     *)
(***************************************************************************)
\* C20: the dimension counting of a convolution never wraps in unsigned
\* arithmetic: whenever the spatial count (output rank - batch - output
\* feature) or the window count (output rank - batch - input feature) is
\* computed, the output rank is at least the sum subtracted from it, and the
\* two counts are equal.
C20_CountsNeverWrap ==
    (op.kind = "conv" /\ nWinUsed # {}) =>
        /\ OutputRank >= getNumBatchDimensions + getNumInputFeatureDimensions
        /\ OutputRank >= getNumBatchDimensions + getNumOutputFeatureDimensions
        /\ \A n \in nWinUsed :
              /\ n = U32(OutputRank - getNumBatchDimensions - getNumInputFeatureDimensions)
              /\ n = getNumSpatialDimensions(op)
====
